---- MODULE Spec2Model ----
(***************************************************************************)
(* fileSyncer (syncer.py): a client pass sync_with_peer against a peer     *)
(* that serves /list, /get and /put over one shared directory.             *)
(*                                                                         *)
(* A relative path is a sequence of segments, a segment a sequence of      *)
(* tokens (pieces of the file name); a glob pattern has the same shape,    *)
(* the token "*" being the wildcard.  A file is its bytes and its mtime,   *)
(* the mtime counted in ticks of 1/TicksPerSec second.                     *)
(***************************************************************************)
EXTENDS Integers, Sequences, FiniteSets, TLC

\* ---------------------------------------------------------------- bounds
TicksPerSec == 2      \* resolution of st_mtime below one second
MaxInitTime == 2      \* mtimes (ticks) of the files present before the first pass
MaxTime == 3          \* the clock (ticks) stops advancing here
MaxRuns == 2          \* passes started in one behaviour
MaxEnvChanges == 1    \* files removed by another writer in one behaviour
MaxSize == 2          \* sizes of the metadata records given to determine_action
MaxMtime == 2         \* mtimes of the metadata records given to determine_action

\* ---------------------------------------------------------------- paths
PDetail == << <<"detail">> >>                \* the file "detail"
PTmp == << <<"d">>, <<"x", ".tmp">> >>       \* the file "d/x.tmp"
Paths == {PDetail, PTmp}

PatTmp == << <<"*", ".tmp">> >>              \* the pattern "*.tmp"
IgnoreSets == {<< >>, <<PatTmp>>}            \* pattern lists a .syncignore may hold

\* ---------------------------------------------------------------- values
None == [kind |-> "none"]
Absent == [exists |-> FALSE]
FileOf(c, t) == [exists |-> TRUE, content |-> c, mtime |-> t]
MetaOf(s, t) == [kind |-> "meta", size |-> s, mtime |-> t]

LocalBytes == <<1>>                 \* bytes of the files first present locally
PeerBytes == <<2, 2>>               \* bytes of the files first present on the peer
NotFoundBody == <<0, 0, 0>>         \* the JSON body {"error": "file not found"}
HttpErrorBody == <<0, 0, 0, 0>>     \* the JSON body {"detail": "Not Found"}
NotFoundText == [kind |-> "str", text |-> "Not Found"]

\* The mapping r.json() yields for the body {"detail": "Not Found"}.
ErrorListing == [p \in {PDetail} |-> NotFoundText]

\* ---------------------------------------------------------------- ignore
RECURSIVE fnmatch(_, _)
fnmatch(name, pat) ==
    IF pat = << >> THEN name = << >>
    ELSE IF Head(pat) = "*"
         THEN fnmatch(name, Tail(pat))
              \/ (name # << >> /\ fnmatch(Tail(name), pat))
         ELSE name # << >> /\ Head(name) = Head(pat)
              /\ fnmatch(Tail(name), Tail(pat))

\* Path(rel_path).match(pat) for a relative pattern: the pattern's segments
\* are matched against the last segments of the path.
PathMatch(path, pat) ==
    /\ Len(pat) <= Len(path)
    /\ \A i \in 1..Len(pat) : fnmatch(path[Len(path) - Len(pat) + i], pat[i])

should_ignore(rel_path, patterns) ==
    \E i \in 1..Len(patterns) : PathMatch(rel_path, patterns[i])

\* ---------------------------------------------------------------- snapshot
Present(tree) == {p \in Paths : tree[p].exists}

\* int(stat.st_mtime): the mtime truncated to whole seconds.
IntMtime(t) == t \div TicksPerSec

Stat(f) == MetaOf(Len(f.content), IntMtime(f.mtime))

\* get_file_list without the test of line 47.
KeptAll(walk, patterns) == walk

\* The entries get_file_list keeps of the files the walk enumerated.
Kept(walk, patterns) == {p \in walk : ~should_ignore(p, patterns)}

\* fpath.stat() raises FileNotFoundError for a kept entry that is gone.
StatRaises(tree, walk, patterns) ==
    \E p \in Kept(walk, patterns) : ~tree[p].exists

get_file_list(tree, walk, patterns) ==
    [p \in Kept(walk, patterns) |-> Stat(tree[p])]

MetaGet(files, path) == IF path \in DOMAIN files THEN files[path] ELSE None

\* ---------------------------------------------------------------- reconcile
Truthy(meta) == meta # None

\* determine_action with the sizes breaking a tie of the mtimes.
determine_action_size_tie(local_meta, peer_meta) ==
    IF Truthy(local_meta) /\ Truthy(peer_meta)
    THEN IF peer_meta.kind # "meta" THEN "TypeError"
         ELSE IF peer_meta.mtime > local_meta.mtime THEN "download"
         ELSE IF local_meta.mtime > peer_meta.mtime THEN "upload"
         ELSE IF peer_meta.size # local_meta.size THEN "download"
         ELSE "skip"
    ELSE IF Truthy(local_meta) /\ ~Truthy(peer_meta) THEN "upload_new"
    ELSE IF Truthy(peer_meta) /\ ~Truthy(local_meta) THEN "download_new"
    ELSE "skip"

\* determine_action with the two comparisons of the mtimes exchanged.
determine_action_older_wins(local_meta, peer_meta) ==
    IF Truthy(local_meta) /\ Truthy(peer_meta)
    THEN IF peer_meta.kind # "meta" THEN "TypeError"
         ELSE IF peer_meta.mtime < local_meta.mtime THEN "download"
         ELSE IF local_meta.mtime < peer_meta.mtime THEN "upload"
         ELSE "skip"
    ELSE IF Truthy(local_meta) /\ ~Truthy(peer_meta) THEN "upload_new"
    ELSE IF Truthy(peer_meta) /\ ~Truthy(local_meta) THEN "download_new"
    ELSE "skip"

\* determine_action with >= in the first comparison of the mtimes.
determine_action_ge(local_meta, peer_meta) ==
    IF Truthy(local_meta) /\ Truthy(peer_meta)
    THEN IF peer_meta.kind # "meta" THEN "TypeError"
         ELSE IF peer_meta.mtime >= local_meta.mtime THEN "download"
         ELSE IF local_meta.mtime > peer_meta.mtime THEN "upload"
         ELSE "skip"
    ELSE IF Truthy(local_meta) /\ ~Truthy(peer_meta) THEN "upload_new"
    ELSE IF Truthy(peer_meta) /\ ~Truthy(local_meta) THEN "download_new"
    ELSE "skip"

determine_action(local_meta, peer_meta) ==
    IF Truthy(local_meta) /\ Truthy(peer_meta)
    THEN IF peer_meta.kind # "meta" THEN "TypeError"
         ELSE IF peer_meta.mtime > local_meta.mtime THEN "download"
         ELSE IF local_meta.mtime > peer_meta.mtime THEN "upload"
         ELSE "skip"
    ELSE IF Truthy(local_meta) /\ ~Truthy(peer_meta) THEN "upload_new"
    ELSE IF Truthy(peer_meta) /\ ~Truthy(local_meta) THEN "download_new"
    ELSE "skip"

Upper(action) ==
    CASE action = "download" -> "DOWNLOAD"
      [] action = "download_new" -> "DOWNLOAD_NEW"
      [] action = "upload" -> "UPLOAD"
      [] action = "upload_new" -> "UPLOAD_NEW"

\* ---------------------------------------------------------------- state
VARIABLES
    localTree,        \* the client's folder: path -> file or Absent
    peerTree,         \* the folder the peer serves
    now,              \* the clock, in ticks
    ignore_patterns,  \* the client's patterns (main, line 188)
    srv_ignore,       \* the server's patterns (start_server, line 65)
    pc,               \* where the client is in sync_with_peer
    dry_run, log,     \* the flags of the running pass
    walked,           \* files os.walk enumerated for the client
    srvWalked,        \* files os.walk enumerated for the /list handler
    local_files, peer_files,   \* the two snapshots of the pass
    todo,             \* paths of all_paths the loop has not visited yet
    printed,          \* lines printed by the pass
    calls,            \* download_file / upload_file calls made by the pass
    decided,          \* <<path, action>> for every non-skip action decided
    error,            \* the exception that ended the pass, or "none"
    list_result,      \* how the /list request of the pass ended
    runs,             \* passes started
    envChanges,       \* files removed by another writer
    failed,           \* a request of this pass did not succeed
    interfered,       \* another writer changed a tree since the pass started
    prevClean,        \* the pass before this one completed undisturbed
    local0, peer0,    \* the trees when the pass started
    deleted,          \* <<side, path>> of the files a user removed between passes
    da_local, da_peer, da_action,  \* arguments and result of determine_action
    da_swapped        \* result of determine_action with the arguments exchanged

vars == << localTree, peerTree, now, ignore_patterns, srv_ignore, pc, dry_run,
           log, walked, srvWalked, local_files, peer_files, todo, printed,
           calls, decided, error, list_result, runs, envChanges, failed,
           interfered, prevClean, local0, peer0, deleted, da_local, da_peer,
           da_action, da_swapped >>

treeVars == << localTree, peerTree, now >>
cfgVars == << ignore_patterns, srv_ignore >>
daVars == << da_local, da_peer, da_action, da_swapped >>

EmptyMap == [p \in {} |-> None]

InitFiles(bytes) == {Absent} \cup {FileOf(bytes, t) : t \in 0..MaxInitTime}

Init ==
    /\ localTree \in [Paths -> InitFiles(LocalBytes)]
    /\ peerTree \in [Paths -> InitFiles(PeerBytes)]
    /\ now = MaxInitTime
    /\ ignore_patterns \in IgnoreSets
    /\ srv_ignore \in IgnoreSets
    /\ pc = "idle"
    /\ dry_run = FALSE /\ log = FALSE
    /\ walked = {} /\ srvWalked = {}
    /\ local_files = EmptyMap /\ peer_files = EmptyMap
    /\ todo = {}
    /\ printed = {} /\ calls = {} /\ decided = {}
    /\ error = "none" /\ list_result = "none"
    /\ runs = 0 /\ envChanges = 0
    /\ failed = FALSE /\ interfered = FALSE /\ prevClean = FALSE
    /\ local0 = localTree /\ peer0 = peerTree
    /\ deleted = {}
    /\ da_local = None /\ da_peer = None
    /\ da_action = "unset" /\ da_swapped = "unset"

\* ---------------------------------------------------------------- the pass
\* main -> sync_with_peer: the walk of get_file_list enumerates the folder.
Begin(d, l) ==
    /\ runs' = runs + 1
    /\ dry_run' = d /\ log' = l
    /\ walked' = Present(localTree)
    /\ pc' = "walk"
    /\ srvWalked' = {}
    /\ local_files' = EmptyMap /\ peer_files' = EmptyMap
    /\ todo' = {} /\ printed' = {} /\ calls' = {} /\ decided' = {}
    /\ error' = "none" /\ list_result' = "none"
    /\ failed' = FALSE /\ interfered' = FALSE
    /\ prevClean' = (pc = "done" /\ ~dry_run /\ ~failed /\ ~interfered)
    /\ local0' = localTree /\ peer0' = peerTree
    /\ UNCHANGED << treeVars, cfgVars, envChanges, deleted, daVars >>

Start(d, l) ==
    /\ pc = "idle"
    /\ Begin(d, l)

\* The command is run once more after a pass that completed.
Again(l) ==
    /\ pc = "done"
    /\ runs < MaxRuns
    /\ Begin(FALSE, l)

\* get_file_list on the client: the stat of every kept entry.
LocalSnapshot ==
    /\ pc = "walk"
    /\ IF StatRaises(localTree, walked, ignore_patterns)
       THEN /\ pc' = "crashed"
            /\ error' = "FileNotFoundError:stat"
            /\ UNCHANGED local_files
       ELSE /\ pc' = "list"
            /\ local_files' = get_file_list(localTree, walked, ignore_patterns)
            /\ UNCHANGED error
    /\ UNCHANGED << treeVars, cfgVars, dry_run, log, walked, srvWalked,
                    peer_files, todo, printed, calls, decided, runs,
                    envChanges, failed, interfered, prevClean, local0, peer0,
                    list_result,
                    deleted, daVars >>

\* The except branch of sync_with_peer: print and return.
AbortRun(how) ==
    /\ list_result' = how
    /\ pc' = "aborted"
    /\ error' = "ListError"
    /\ printed' = printed \cup {<<"ERROR", << >> >>}
    /\ failed' = TRUE
    /\ UNCHANGED << peer_files, todo >>

\* all_paths, and the start of the loop.
EnterLoop(how, listing) ==
    /\ list_result' = how
    /\ peer_files' = listing
    /\ todo' = DOMAIN local_files \cup DOMAIN listing
    /\ pc' = "loop"
    /\ UNCHANGED << error, printed >>

\* requests.get(/list) raises: no connection, or no answer within the timeout.
ListException ==
    /\ pc = "list"
    /\ AbortRun("exception")
    /\ UNCHANGED << treeVars, cfgVars, dry_run, log, walked, srvWalked,
                    local_files, calls, decided, runs, envChanges, interfered,
                    prevClean, local0, peer0, deleted, daVars >>

\* /list is answered with an HTTP error whose body is a JSON object:
\* requests does not raise and r.json() yields that object.
ListHttpError ==
    /\ pc = "list"
    /\ EnterLoop("http_error", ErrorListing)
    /\ failed' = TRUE
    /\ UNCHANGED << treeVars, cfgVars, dry_run, log, walked, srvWalked,
                    local_files, calls, decided, runs, envChanges, interfered,
                    prevClean, local0, peer0, deleted, daVars >>

\* The /list handler starts: the walk of get_file_list enumerates the folder.
PeerEnumerate ==
    /\ pc = "list"
    /\ srvWalked' = Present(peerTree)
    /\ pc' = "listing"
    /\ UNCHANGED << treeVars, cfgVars, dry_run, log, walked, local_files,
                    peer_files, todo, printed, calls, decided, error, runs,
                    envChanges, failed, interfered, prevClean, local0, peer0,
                    list_result,
                    deleted, daVars >>

\* The /list handler stats the kept entries and answers; a raise in the
\* handler is a 500 with a body that r.json() cannot parse.
PeerListRespond ==
    /\ pc = "listing"
    /\ IF StatRaises(peerTree, srvWalked, srv_ignore)
       THEN AbortRun("handler_raised")
       ELSE /\ EnterLoop("ok", get_file_list(peerTree, srvWalked, srv_ignore))
            /\ UNCHANGED failed
    /\ UNCHANGED << treeVars, cfgVars, dry_run, log, walked, srvWalked,
                    local_files, calls, decided, runs, envChanges, interfered,
                    prevClean, local0, peer0, deleted, daVars >>

\* ---------------------------------------------------------------- transfers
\* The /get handler: the file's bytes, or the JSON body of line 76.
get_file(tree, path) ==
    IF tree[path].exists THEN tree[path].content ELSE NotFoundBody

\* download_file emptying the folder before it writes the file.
download_file_clobber(tree, path, body, t) ==
    [p \in Paths |-> IF p = path THEN FileOf(body, t) ELSE Absent]

\* download_file rewriting every file of the folder along with the one it
\* was called for.
download_file_touch_all(tree, path, body, t) ==
    [p \in Paths |-> IF p = path THEN FileOf(body, t)
                     ELSE IF tree[p].exists THEN FileOf(tree[p].content, t)
                     ELSE Absent]

\* download_file writes r.content; the file is stamped with the time of
\* the write.
download_file(tree, path, body, t) == [tree EXCEPT ![path] = FileOf(body, t)]

\* The /put handler writing a file whose bytes were already consumed.
put_file_empty(tree, path, body, t) == [tree EXCEPT ![path] = FileOf(<< >>, t)]

\* The /put handler emptying the served folder before it writes the file.
put_file_rmtree(tree, path, body, t) ==
    [p \in Paths |-> IF p = path THEN FileOf(body, t) ELSE Absent]

\* The /put handler writes the uploaded bytes; same stamp.
put_file(tree, path, body, t) == [tree EXCEPT ![path] = FileOf(body, t)]

\* The action decided from a fresh look at the two folders.
ActionLive(path) ==
    determine_action(IF localTree[path].exists THEN Stat(localTree[path]) ELSE None,
                     IF peerTree[path].exists THEN Stat(peerTree[path]) ELSE None)

Action(path) ==
    determine_action(MetaGet(local_files, path), MetaGet(peer_files, path))

\* The loop body printing under the log flag alone.
VisitLogOnly(path, kind) ==
    /\ pc = "loop"
    /\ path \in todo
    /\ ~should_ignore(path, ignore_patterns)
    /\ Action(path) \in kind
    /\ todo' = todo \ {path}
    /\ decided' = decided \cup {<<path, Action(path)>>}
    /\ printed' = IF log
                  THEN printed \cup {<<Upper(Action(path)), path>>}
                  ELSE printed

\* The loop body leaving the path among those still to visit.
VisitKeep(path, kind) ==
    /\ pc = "loop"
    /\ path \in todo
    /\ ~should_ignore(path, ignore_patterns)
    /\ Action(path) \in kind
    /\ todo' = todo
    /\ decided' = decided \cup {<<path, Action(path)>>}
    /\ printed' = IF log \/ dry_run
                  THEN printed \cup {<<Upper(Action(path)), path>>}
                  ELSE printed

\* The head of the loop body for a path that gets a transfer action.
Visit(path, kind) ==
    /\ pc = "loop"
    /\ path \in todo
    /\ ~should_ignore(path, ignore_patterns)
    /\ Action(path) \in kind
    /\ todo' = todo \ {path}
    /\ decided' = decided \cup {<<path, Action(path)>>}
    /\ printed' = IF log \/ dry_run
                  THEN printed \cup {<<Upper(Action(path)), path>>}
                  ELSE printed

Transfers == {"download", "download_new", "upload", "upload_new"}

Call(fn, path) ==
    /\ ~dry_run
    /\ calls' = calls \cup {<<fn, path>>}

Raise(exc) ==
    /\ pc' = "crashed"
    /\ error' = exc

\* Line 107: an ignored path is passed over.
StepIgnored(path) ==
    /\ pc = "loop"
    /\ path \in todo
    /\ should_ignore(path, ignore_patterns)
    /\ todo' = todo \ {path}
    /\ UNCHANGED << treeVars, cfgVars, pc, dry_run, log, walked, srvWalked,
                    local_files, peer_files, printed, calls, decided, error,
                    runs, envChanges, failed, interfered, prevClean, local0,
                    peer0, list_result,
                    deleted, daVars >>

\* Line 114: no action for the path.
StepSkip(path) ==
    /\ pc = "loop"
    /\ path \in todo
    /\ ~should_ignore(path, ignore_patterns)
    /\ Action(path) = "skip"
    /\ todo' = todo \ {path}
    /\ UNCHANGED << treeVars, cfgVars, pc, dry_run, log, walked, srvWalked,
                    local_files, peer_files, printed, calls, decided, error,
                    runs, envChanges, failed, interfered, prevClean, local0,
                    peer0, list_result,
                    deleted, daVars >>

\* peer_meta["mtime"] on a value that is no mapping.
StepTypeError(path) ==
    /\ pc = "loop"
    /\ path \in todo
    /\ ~should_ignore(path, ignore_patterns)
    /\ Action(path) = "TypeError"
    /\ Raise("TypeError")
    /\ UNCHANGED << treeVars, cfgVars, dry_run, log, walked, srvWalked,
                    local_files, peer_files, todo, printed, calls, decided,
                    runs, envChanges, failed, interfered, prevClean, local0,
                    peer0, list_result,
                    deleted, daVars >>

\* Lines 119-129 under dry_run: the action is printed, nothing is called.
StepDryRun(path) ==
    /\ dry_run
    /\ Visit(path, Transfers)
    /\ UNCHANGED << treeVars, cfgVars, pc, dry_run, log, walked, srvWalked,
                    local_files, peer_files, calls, error, runs, envChanges,
                    failed, interfered, prevClean, local0, peer0, list_result,
                    deleted, daVars >>

\* download_file, the peer answering /get itself.
StepDownload(path, t) ==
    /\ Visit(path, {"download", "download_new"})
    /\ Call("download_file", path)
    /\ localTree' = download_file(localTree, path, get_file(peerTree, path), t)
    /\ now' = t
    /\ failed' = (failed \/ ~peerTree[path].exists)
    /\ UNCHANGED << peerTree, cfgVars, pc, dry_run, log, walked, srvWalked,
                    local_files, peer_files, error, runs, envChanges,
                    interfered, prevClean, local0, peer0, list_result,
                    deleted, daVars >>

\* download_file, /get answered with an HTTP error: requests does not
\* raise and the body is written as the file.
StepDownloadHttpError(path, t) ==
    /\ Visit(path, {"download", "download_new"})
    /\ Call("download_file", path)
    /\ localTree' = download_file(localTree, path, HttpErrorBody, t)
    /\ now' = t
    /\ failed' = TRUE
    /\ UNCHANGED << peerTree, cfgVars, pc, dry_run, log, walked, srvWalked,
                    local_files, peer_files, error, runs, envChanges,
                    interfered, prevClean, local0, peer0, list_result,
                    deleted, daVars >>

\* download_file, requests.get raises: nothing in sync_with_peer catches it.
StepDownloadException(path) ==
    /\ Visit(path, {"download", "download_new"})
    /\ Call("download_file", path)
    /\ Raise("ConnectionError")
    /\ failed' = TRUE
    /\ UNCHANGED << treeVars, cfgVars, dry_run, log, walked, srvWalked,
                    local_files, peer_files, runs, envChanges, interfered,
                    prevClean, local0, peer0, list_result,
                    deleted, daVars >>

\* upload_file, the peer storing the bytes.
StepUpload(path, t) ==
    /\ Visit(path, {"upload", "upload_new"})
    /\ Call("upload_file", path)
    /\ localTree[path].exists
    /\ peerTree' = put_file(peerTree, path, localTree[path].content, t)
    /\ now' = t
    /\ UNCHANGED << localTree, cfgVars, pc, dry_run, log, walked, srvWalked,
                    local_files, peer_files, error, runs, envChanges, failed,
                    interfered, prevClean, local0, peer0, list_result,
                    deleted, daVars >>

\* upload_file, /put answered with an HTTP error: the answer is not looked at.
StepUploadHttpError(path) ==
    /\ Visit(path, {"upload", "upload_new"})
    /\ Call("upload_file", path)
    /\ localTree[path].exists
    /\ failed' = TRUE
    /\ UNCHANGED << treeVars, cfgVars, pc, dry_run, log, walked, srvWalked,
                    local_files, peer_files, error, runs, envChanges,
                    interfered, prevClean, local0, peer0, list_result,
                    deleted, daVars >>

\* upload_file, requests.post raises.
StepUploadException(path) ==
    /\ Visit(path, {"upload", "upload_new"})
    /\ Call("upload_file", path)
    /\ localTree[path].exists
    /\ Raise("ConnectionError")
    /\ failed' = TRUE
    /\ UNCHANGED << treeVars, cfgVars, dry_run, log, walked, srvWalked,
                    local_files, peer_files, runs, envChanges, interfered,
                    prevClean, local0, peer0, list_result,
                    deleted, daVars >>

\* upload_file, open(local_path, "rb") on a file that is gone.
StepUploadMissing(path) ==
    /\ Visit(path, {"upload", "upload_new"})
    /\ Call("upload_file", path)
    /\ ~localTree[path].exists
    /\ Raise("FileNotFoundError:open")
    /\ failed' = TRUE
    /\ UNCHANGED << treeVars, cfgVars, dry_run, log, walked, srvWalked,
                    local_files, peer_files, runs, envChanges, interfered,
                    prevClean, local0, peer0, list_result,
                    deleted, daVars >>

\* download_file, the peer never answering: requests.get is given no
\* timeout and waits for ever.
StepDownloadHang(path) ==
    /\ Visit(path, {"download", "download_new"})
    /\ Call("download_file", path)
    /\ pc' = "blocked"
    /\ failed' = TRUE
    /\ UNCHANGED << treeVars, cfgVars, dry_run, log, walked, srvWalked,
                    local_files, peer_files, error, runs, envChanges,
                    interfered, prevClean, local0, peer0, list_result,
                    deleted, daVars >>

\* upload_file, the peer never answering: requests.post is given no timeout.
StepUploadHang(path) ==
    /\ Visit(path, {"upload", "upload_new"})
    /\ Call("upload_file", path)
    /\ localTree[path].exists
    /\ pc' = "blocked"
    /\ failed' = TRUE
    /\ UNCHANGED << treeVars, cfgVars, dry_run, log, walked, srvWalked,
                    local_files, peer_files, error, runs, envChanges,
                    interfered, prevClean, local0, peer0, list_result,
                    deleted, daVars >>

\* The loop is exhausted: sync_with_peer returns.
Return ==
    /\ pc = "loop"
    /\ todo = {}
    /\ pc' = "done"
    /\ UNCHANGED << treeVars, cfgVars, dry_run, log, walked, srvWalked,
                    local_files, peer_files, todo, printed, calls, decided,
                    error, runs, envChanges, failed, interfered, prevClean,
                    local0, peer0, list_result,
                    deleted, daVars >>

\* ---------------------------------------------------------------- other writers
Running == {"walk", "list", "listing", "loop"}

\* The two roles share their directory with other writers: a file is removed.
EnvDeleteLocal(path) ==
    /\ pc \in Running
    /\ envChanges < MaxEnvChanges
    /\ localTree[path].exists
    /\ localTree' = [localTree EXCEPT ![path] = Absent]
    /\ envChanges' = envChanges + 1
    /\ interfered' = TRUE
    /\ UNCHANGED << peerTree, now, cfgVars, pc, dry_run, log, walked,
                    srvWalked, local_files, peer_files, todo, printed, calls,
                    decided, error, runs, failed, prevClean, local0, peer0,
                    list_result,
                    deleted, daVars >>

EnvDeletePeer(path) ==
    /\ pc \in Running
    /\ envChanges < MaxEnvChanges
    /\ peerTree[path].exists
    /\ peerTree' = [peerTree EXCEPT ![path] = Absent]
    /\ envChanges' = envChanges + 1
    /\ interfered' = TRUE
    /\ UNCHANGED << localTree, now, cfgVars, pc, dry_run, log, walked,
                    srvWalked, local_files, peer_files, todo, printed, calls,
                    decided, error, runs, failed, prevClean, local0, peer0,
                    list_result,
                    deleted, daVars >>

\* The user removes a file of the local folder between two passes.
UserDeleteLocal(path) ==
    /\ pc = "done"
    /\ envChanges < MaxEnvChanges
    /\ localTree[path].exists
    /\ localTree' = [localTree EXCEPT ![path] = Absent]
    /\ envChanges' = envChanges + 1
    /\ interfered' = TRUE
    /\ deleted' = deleted \cup {<<"local", path>>}
    /\ UNCHANGED << peerTree, now, cfgVars, pc, dry_run, log, walked,
                    srvWalked, local_files, peer_files, todo, printed, calls,
                    decided, error, runs, failed, prevClean, local0, peer0,
                    list_result, daVars >>

\* The user removes a file of the served folder between two passes.
UserDeletePeer(path) ==
    /\ pc = "done"
    /\ envChanges < MaxEnvChanges
    /\ peerTree[path].exists
    /\ peerTree' = [peerTree EXCEPT ![path] = Absent]
    /\ envChanges' = envChanges + 1
    /\ interfered' = TRUE
    /\ deleted' = deleted \cup {<<"peer", path>>}
    /\ UNCHANGED << localTree, now, cfgVars, pc, dry_run, log, walked,
                    srvWalked, local_files, peer_files, todo, printed, calls,
                    decided, error, runs, failed, prevClean, local0, peer0,
                    list_result, daVars >>

\* ---------------------------------------------------------------- specification
Stamps == now..MaxTime

Next ==
    \/ \E d \in BOOLEAN, l \in BOOLEAN : Start(d, l)
    \/ LocalSnapshot
    \/ ListException
    \/ ListHttpError
    \/ PeerEnumerate
    \/ PeerListRespond
    \/ \E path \in Paths : StepIgnored(path)
    \/ \E path \in Paths : StepSkip(path)
    \/ \E path \in Paths : StepTypeError(path)
    \/ \E path \in Paths : StepDryRun(path)
    \/ \E path \in Paths, t \in Stamps : StepDownload(path, t)
    \/ \E path \in Paths, t \in Stamps : StepDownloadHttpError(path, t)
    \/ \E path \in Paths : StepDownloadException(path)
    \/ \E path \in Paths, t \in Stamps : StepUpload(path, t)
    \/ \E path \in Paths : StepUploadHttpError(path)
    \/ \E path \in Paths : StepUploadException(path)
    \/ \E path \in Paths : StepUploadMissing(path)
    \/ Return
    \/ \E path \in Paths : EnvDeleteLocal(path)
    \/ \E path \in Paths : EnvDeletePeer(path)

Spec == Init /\ [][Next]_vars

\* ---------------------------------------------------------------- determine_action alone
Metas == {MetaOf(s, t) : s \in 0..MaxSize, t \in 0..MaxMtime}

InitDA ==
    /\ localTree = [p \in Paths |-> Absent]
    /\ peerTree = [p \in Paths |-> Absent]
    /\ now = MaxInitTime
    /\ ignore_patterns = << >>
    /\ srv_ignore = << >>
    /\ pc = "idle"
    /\ dry_run = FALSE /\ log = FALSE
    /\ walked = {} /\ srvWalked = {}
    /\ local_files = EmptyMap /\ peer_files = EmptyMap
    /\ todo = {}
    /\ printed = {} /\ calls = {} /\ decided = {}
    /\ error = "none" /\ list_result = "none"
    /\ runs = 0 /\ envChanges = 0
    /\ failed = FALSE /\ interfered = FALSE /\ prevClean = FALSE
    /\ local0 = localTree /\ peer0 = peerTree
    /\ da_local \in Metas \cup {None}
    /\ da_peer \in Metas \cup {None}
    /\ da_action = "unset" /\ da_swapped = "unset"
    /\ deleted = {}

Decide ==
    /\ da_action = "unset"
    /\ da_action' = determine_action(da_local, da_peer)
    /\ da_swapped' = determine_action(da_peer, da_local)
    /\ UNCHANGED << localTree, peerTree, now, ignore_patterns, srv_ignore, pc,
                    dry_run, log, walked, srvWalked, local_files, peer_files,
                    todo, printed, calls, decided, error, list_result, runs, envChanges,
                    failed, interfered, prevClean, local0, peer0, deleted,
                    da_local, da_peer >>

NextDA == Decide

SpecDA == InitDA /\ [][NextDA]_vars

\* ---------------------------------------------------------------- two passes in a row
\* Passes run one after the other, not dry-run, every request answered by
\* the peer itself and no other writer.
NextTwice ==
    \/ \E l \in BOOLEAN : Start(FALSE, l)
    \/ \E l \in BOOLEAN : Again(l)
    \/ LocalSnapshot
    \/ PeerEnumerate
    \/ PeerListRespond
    \/ \E path \in Paths : StepIgnored(path)
    \/ \E path \in Paths : StepSkip(path)
    \/ \E path \in Paths, t \in Stamps : StepDownload(path, t)
    \/ \E path \in Paths, t \in Stamps : StepUpload(path, t)
    \/ Return

SpecTwice == Init /\ [][NextTwice]_vars

\* ---------------------------------------------------------------- a peer that stops answering
\* One pass against a peer that may stop answering any request.  The /list
\* request then raises after its timeout (ListException).  The client
\* process keeps running: a step that stays possible is taken.
NextHang ==
    \/ \E l \in BOOLEAN : Start(FALSE, l)
    \/ LocalSnapshot
    \/ ListException
    \/ PeerEnumerate
    \/ PeerListRespond
    \/ \E path \in Paths : StepIgnored(path)
    \/ \E path \in Paths : StepSkip(path)
    \/ \E path \in Paths, t \in Stamps : StepDownload(path, t)
    \/ \E path \in Paths : StepDownloadHang(path)
    \/ \E path \in Paths, t \in Stamps : StepUpload(path, t)
    \/ \E path \in Paths : StepUploadHang(path)
    \/ Return

SpecHang == Init /\ [][NextHang]_vars /\ WF_vars(NextHang)

\* ---------------------------------------------------------------- a pass with no other writer
\* One pass, the peer answering or refusing each request, while nothing else
\* touches either folder.
NextAlone ==
    \/ \E d \in BOOLEAN, l \in BOOLEAN : Start(d, l)
    \/ LocalSnapshot
    \/ ListException
    \/ ListHttpError
    \/ PeerEnumerate
    \/ PeerListRespond
    \/ \E path \in Paths : StepIgnored(path)
    \/ \E path \in Paths : StepSkip(path)
    \/ \E path \in Paths : StepTypeError(path)
    \/ \E path \in Paths : StepDryRun(path)
    \/ \E path \in Paths, t \in Stamps : StepDownload(path, t)
    \/ \E path \in Paths, t \in Stamps : StepDownloadHttpError(path, t)
    \/ \E path \in Paths : StepDownloadException(path)
    \/ \E path \in Paths, t \in Stamps : StepUpload(path, t)
    \/ \E path \in Paths : StepUploadHttpError(path)
    \/ \E path \in Paths : StepUploadException(path)
    \/ Return

SpecAlone == Init /\ [][NextAlone]_vars

\* ---------------------------------------------------------------- deletions between passes
\* The command run up to MaxRuns times, the peer answering or refusing each
\* request, and the user deleting files while no pass is running.  Every
\* pass is run with --log.
NextDelete ==
    \/ Start(FALSE, TRUE)
    \/ Again(TRUE)
    \/ LocalSnapshot
    \/ ListHttpError
    \/ PeerEnumerate
    \/ PeerListRespond
    \/ \E path \in Paths : StepIgnored(path)
    \/ \E path \in Paths : StepSkip(path)
    \/ \E path \in Paths : StepTypeError(path)
    \/ \E path \in Paths, t \in Stamps : StepDownload(path, t)
    \/ \E path \in Paths, t \in Stamps : StepDownloadHttpError(path, t)
    \/ \E path \in Paths, t \in Stamps : StepUpload(path, t)
    \/ \E path \in Paths : StepUploadHttpError(path)
    \/ Return
    \/ \E path \in Paths : UserDeleteLocal(path)
    \/ \E path \in Paths : UserDeletePeer(path)

SpecDelete == Init /\ [][NextDelete]_vars

\* ================================================================ claims
InBoth(path) == path \in DOMAIN local_files /\ path \in DOMAIN peer_files

\* Paths of all_paths the loop has not visited that have a transfer action.
Pending == {p \in todo : ~should_ignore(p, ignore_patterns)
                          /\ Action(p) \in Transfers}

\* C1: determine_action returns download when both records exist and the
\* peer mtime is greater, upload when the local mtime is greater, skip when
\* the mtimes are equal, upload_new for a local record alone, download_new
\* for a peer record alone; the sizes play no part.
C1_DetermineAction ==
    da_action # "unset" =>
        LET l == da_local # None
            p == da_peer # None
        IN /\ (l /\ p /\ da_peer.mtime > da_local.mtime) => da_action = "download"
           /\ (l /\ p /\ da_local.mtime > da_peer.mtime) => da_action = "upload"
           /\ (l /\ p /\ da_local.mtime = da_peer.mtime) => da_action = "skip"
           /\ (l /\ ~p) => da_action = "upload_new"
           /\ (p /\ ~l) => da_action = "download_new"

C1_Witness ==
    /\ da_action = "skip"
    /\ da_local # None /\ da_peer # None
    /\ da_local.mtime = da_peer.mtime
    /\ da_local.size # da_peer.size

\* C2: a second pass run right after a completed pass, nothing else having
\* changed either tree and every request of both passes answered by the
\* peer itself, decides no upload, upload_new, download or download_new.
C2_SecondPassDecidesNothing ==
    (pc = "done" /\ prevClean /\ ~failed /\ ~interfered) => decided = {}

\* C3: after a pass that completed, not dry-run, with no failed request, no
\* other writer and the same ignore patterns on both sides, both trees hold
\* the same non-ignored paths, and every path that was in both snapshots
\* with different mtimes holds on both sides the bytes of the side whose
\* mtime was greater.
C3_Pre ==
    /\ pc = "done" /\ ~dry_run /\ ~failed /\ ~interfered
    /\ ignore_patterns = srv_ignore

C3_Converged ==
    C3_Pre =>
        /\ Kept(Present(localTree), ignore_patterns)
             = Kept(Present(peerTree), ignore_patterns)
        /\ \A p \in Paths :
             (InBoth(p) /\ local_files[p].mtime # peer_files[p].mtime) =>
                LET newer == IF peer_files[p].mtime > local_files[p].mtime
                             THEN peer0[p].content ELSE local0[p].content
                IN /\ localTree[p].exists /\ localTree[p].content = newer
                   /\ peerTree[p].exists /\ peerTree[p].content = newer

C3_Witness ==
    /\ C3_Pre
    /\ \E p \in Paths : InBoth(p) /\ peer_files[p].mtime > local_files[p].mtime
    /\ \E p \in Paths : local0[p].exists /\ ~peer0[p].exists
                        /\ ~should_ignore(p, ignore_patterns)

\* C4: when the /list request fails, no download_file or upload_file call
\* is made and neither tree is modified by the pass.
C4_ListFailureAborts ==
    list_result \in {"exception", "handler_raised", "http_error"} =>
        /\ calls = {}
        /\ ~interfered => (localTree = local0 /\ peerTree = peer0)

\* C5: after a genuine listing, a transfer that raises because of the
\* network does not end the pass while other paths still wait for their
\* action.
C5_TransferFailureConfined ==
    list_result = "ok" =>
        ~(pc = "crashed" /\ error = "ConnectionError" /\ Pending # {})

\* C6: after a genuine listing, no local file ever holds the "file not
\* found" body the peer sends for a path it no longer has.
C6_NoNotFoundBodyWritten ==
    list_result = "ok" =>
        \A p \in Paths :
            localTree[p].exists => localTree[p].content # NotFoundBody

\* C7: after a genuine listing, a local file that vanished between the
\* snapshot and its upload does not end the pass while other paths still
\* wait for their action.
C7_VanishedPathSoftSkip ==
    list_result = "ok" =>
        ~(pc = "crashed" /\ error = "FileNotFoundError:open" /\ Pending # {})

\* C8: a file that vanishes between the walk and its stat never makes
\* get_file_list raise, neither on the client nor in the /list handler.
C8_SnapshotFailsSoft ==
    /\ error # "FileNotFoundError:stat"
    /\ list_result # "handler_raised"

\* C9: a path matching the ignore patterns given to get_file_list is in no
\* snapshot built with them, and a path matching the client's patterns gets
\* no action and no transfer call, also when the peer lists it.
C9_IgnoredNeverSynced ==
    \A p \in Paths :
        /\ should_ignore(p, ignore_patterns) =>
              /\ p \notin DOMAIN local_files
              /\ \A a \in Transfers : <<p, a>> \notin decided
              /\ \A fn \in {"download_file", "upload_file"} : <<fn, p>> \notin calls
              /\ \A a \in Transfers : <<Upper(a), p>> \notin printed
        /\ (should_ignore(p, srv_ignore) /\ list_result = "ok") =>
              p \notin DOMAIN peer_files

C9_Witness ==
    /\ pc = "done"
    /\ should_ignore(PTmp, ignore_patterns)
    /\ localTree[PTmp].exists
    /\ PTmp \in DOMAIN peer_files
    /\ decided # {}

\* C10: in dry-run mode no download_file or upload_file call is made, the
\* pass changes neither tree, and when it returns every non-skip action of
\* a non-ignored path has been printed with its path, whatever the log flag.
C10_DryRun ==
    dry_run =>
        /\ calls = {}
        /\ ~interfered => (localTree = local0 /\ peerTree = peer0)
        /\ pc = "done" =>
             \A p \in DOMAIN local_files \cup DOMAIN peer_files :
                (~should_ignore(p, ignore_patterns) /\ Action(p) \in Transfers)
                   => <<Upper(Action(p)), p>> \in printed

C10_Witness ==
    /\ dry_run /\ ~log /\ pc = "done"
    /\ \E p \in Paths : <<p, "download">> \in decided
    /\ \E p \in Paths : <<p, "upload_new">> \in decided

\* C11: for every pair of records, the action decided with the roles of the
\* two sides exchanged is the mirror of the action decided (upload <->
\* download, upload_new <-> download_new, skip <-> skip).
Mirror(action) ==
    CASE action = "upload" -> "download"
      [] action = "download" -> "upload"
      [] action = "upload_new" -> "download_new"
      [] action = "download_new" -> "upload_new"
      [] action = "skip" -> "skip"

C11_RoleSwapMirror ==
    da_action # "unset" => da_swapped = Mirror(da_action)

C11_Witness ==
    /\ da_action = "download" /\ da_swapped = "upload"
    /\ da_local.size = da_peer.size

\* The answer of /list while nothing else touches the peer's folder.
list_files(tree, patterns) == get_file_list(tree, Present(tree), patterns)

\* upload_file has stored on the peer a path that only the local tree had.
UploadedNew(path) ==
    /\ <<path, "upload_new">> \in decided
    /\ <<"upload_file", path>> \in calls
    /\ ~failed /\ ~interfered
    /\ local0[path].exists /\ ~peer0[path].exists

\* C12 as claimed: once upload_new has been executed for a path that only
\* the local tree had, the peer's /list holds the path with the size of the
\* local file.
C12_UploadNewListed ==
    \A p \in Paths :
        UploadedNew(p) =>
            /\ p \in DOMAIN list_files(peerTree, srv_ignore)
            /\ list_files(peerTree, srv_ignore)[p].size = Len(localTree[p].content)

\* C12 amended: the same for a path that does not match the peer's own
\* ignore patterns.
C12_UploadNewListedUnlessIgnored ==
    \A p \in Paths :
        (UploadedNew(p) /\ ~should_ignore(p, srv_ignore)) =>
            /\ p \in DOMAIN list_files(peerTree, srv_ignore)
            /\ list_files(peerTree, srv_ignore)[p].size = Len(localTree[p].content)

C12_Witness ==
    \E p \in Paths : UploadedNew(p) /\ ~should_ignore(p, srv_ignore)

\* sync_with_peer has returned or has been left by an exception.
Ended == pc \in {"done", "aborted", "crashed"}

\* C13: every request of a pass is bounded by a timeout, so a pass ends
\* even when the peer stops answering the listing or a transfer.
C13_PassTerminates == <>Ended

\* The status the process exits with: main falls off its end once
\* sync_with_peer has returned, by its last line as by the return of the
\* except branch; an uncaught exception ends the interpreter with 1.
ExitStatus ==
    CASE pc \in {"done", "aborted"} -> 0
      [] pc = "crashed" -> 1
      [] OTHER -> -1

\* C14: a pass ended by an unreachable peer or a failed listing has printed
\* a diagnostic and exits non-zero; a pass that completed exits zero.
C14_ExitStatus ==
    /\ pc = "aborted" => (<<"ERROR", << >> >> \in printed /\ ExitStatus # 0)
    /\ pc = "done" => ExitStatus = 0

\* What a path holds, whatever its mtime.
Bytes(f) == IF f.exists THEN [exists |-> TRUE, content |-> f.content] ELSE Absent

Downloaded(path) ==
    \E a \in {"download", "download_new"} : <<path, a>> \in decided

Uploaded(path) ==
    \E a \in {"upload", "upload_new"} : <<path, a>> \in decided

\* A pass, not dry-run, whose requests all succeeded, with no other writer.
Undisturbed == ~dry_run /\ ~failed /\ ~interfered

\* C15: whatever the order in which the loop visits the paths, the bytes of
\* both trees are given by the trees at the start of the pass and the set of
\* actions executed: a downloaded path holds the peer's bytes, an uploaded
\* path holds the local bytes on the peer, every other path what it held.
C15_OrderIndependent ==
    Undisturbed =>
        \A p \in Paths :
            /\ Bytes(localTree[p])
                 = IF Downloaded(p) THEN Bytes(peer0[p]) ELSE Bytes(local0[p])
            /\ Bytes(peerTree[p])
                 = IF Uploaded(p) THEN Bytes(local0[p]) ELSE Bytes(peer0[p])

C15_Witness ==
    /\ Undisturbed /\ pc = "done"
    /\ \E p, q \in Paths : p # q /\ Downloaded(p) /\ Uploaded(q)

DecidedPaths == {d[1] : d \in decided}
CalledPaths == {c[2] : c \in calls}

\* C16: in one pass a path gets at most one action, a path that got its
\* action is not visited again, and every path an action is decided or
\* executed for is a key of the local or of the peer snapshot.
C16_OneActionPerPath ==
    /\ \A p \in Paths : Cardinality({a \in Transfers : <<p, a>> \in decided}) <= 1
    /\ \A p \in Paths : Cardinality({c \in calls : c[2] = p}) <= 1
    /\ DecidedPaths \cap todo = {}
    /\ CalledPaths \subseteq DecidedPaths
    /\ DecidedPaths \subseteq DOMAIN local_files \cup DOMAIN peer_files

C16_Witness ==
    /\ pc = "done"
    /\ Cardinality(decided) = 2 /\ Cardinality(calls) = 2

\* C17: the local snapshot is built first, then the peer is listed, and only
\* then are actions decided and transfers made; the two snapshots are those
\* of the trees as they were before the first transfer, and every action of
\* the pass is the one determine_action gives for them.
C17_StrictSequence ==
    /\ pc = "walk" => (list_result = "none" /\ srvWalked = {})
    /\ pc \in {"walk", "list", "listing"} => (calls = {} /\ decided = {})
    /\ pc \in {"list", "listing"} =>
          (list_result = "none" /\ DOMAIN local_files \subseteq walked)
    /\ (calls # {} \/ decided # {}) => list_result \in {"ok", "http_error"}
    /\ (list_result = "ok" /\ ~interfered) =>
          /\ local_files = get_file_list(local0, Present(local0), ignore_patterns)
          /\ peer_files = get_file_list(peer0, Present(peer0), srv_ignore)
    /\ \A d \in decided :
          d[2] = determine_action(MetaGet(local_files, d[1]),
                                  MetaGet(peer_files, d[1]))

C17_Witness ==
    /\ pc = "done" /\ list_result = "ok" /\ ~interfered /\ ~failed
    /\ Cardinality(calls) = 2
    /\ localTree # local0 /\ peerTree # peer0

\* C19: with no other writer, a local path differs from what it was when the
\* pass started only if download_file was called for it, and a peer path
\* only if upload_file was called for it: a download leaves the peer tree
\* and the other local paths alone, an upload the local tree and the other
\* peer paths, and a skipped path is the same on both sides.
C19_OwnPathOnly ==
    ~interfered =>
        \A p \in Paths :
            /\ localTree[p] # local0[p] =>
                  (Downloaded(p) /\ <<"download_file", p>> \in calls)
            /\ peerTree[p] # peer0[p] =>
                  (Uploaded(p) /\ <<"upload_file", p>> \in calls)

C19_Witness ==
    /\ pc = "done" /\ ~interfered
    /\ \E p, q \in Paths :
          /\ p # q
          /\ localTree[p] # local0[p]
          /\ local0[q].exists /\ peer0[q].exists
          /\ q \in DOMAIN local_files /\ Action(q) = "skip"

\* A step that is not a deletion by the user removes no path of either tree.
NoShrink ==
    envChanges' = envChanges =>
        /\ Present(localTree) \subseteq Present(localTree')
        /\ Present(peerTree) \subseteq Present(peerTree')

\* The pass has completed with every request answered and no other writer.
CleanPass == pc = "done" /\ ~failed /\ ~interfered /\ list_result = "ok"

\* The user deleted path on that side before the pass and the other side
\* still held it when the pass started.
DeletedBefore(side, path) ==
    /\ <<side, path>> \in deleted
    /\ IF side = "local"
       THEN ~local0[path].exists /\ peer0[path].exists
       ELSE ~peer0[path].exists /\ local0[path].exists

OnSide(side, path) ==
    IF side = "local" THEN localTree[path].exists ELSE peerTree[path].exists

====
